---- MODULE Spec2Model ----
(***************************************************************************)
(* gpxsplit (src/src/main.rs): main reads a GPX route, takes the waypoints *)
(* of track 0 / segment 0, and pulls the LimitDistance iterator; every     *)
(* subsequence it yields is put back into the route and written to a       *)
(* numbered file that must not exist yet.                                  *)
(*                                                                         *)
(* Abstractions.  f64 values are integers (meters).  geoutils is not part  *)
(* of the repository: Location::distance_to is modelled on a grid of       *)
(* points on the equator, 2000 m apart, plus the region half a turn away,  *)
(* for which Vincenty's iteration does not converge and distance_to        *)
(* returns Err.  A string is a sequence of one-character or longer tokens. *)
(***************************************************************************)
EXTENDS Integers, Sequences, FiniteSets, TLC

\* ----------------------------------------------------------------- bounds
\* longest waypoint sequence of track 0 / segment 0
MaxLen == 4
\* longest waypoint sequence the iterator is given on its own (PartitionSpec)
DeepLen == 6
\* how many times IterSpec calls next
MaxPulls == 8
\* how many chunks the long route of LongSpec gives
LongChunks == 101
\* grid points lie at x = 0..MaxLon
MaxLon == 1
\* the values of km_per_file tried: negative, zero, and up to 1.5 grid steps
KmPerFile == (-1)..3
\* which output file, counted from 0, may be there before the run
Preexisting == 0..2

\* ------------------------------------------------------------ data model
\* half the equator (20 000 km) in grid steps of 2000 m
HalfTurn == 20000000 \div 2000

\* gpx::Waypoint: the point (x = longitude, y = latitude) and auxiliary data
GridWaypoints == {[x |-> l, y |-> 0, ele |-> 0] : l \in 0..MaxLon}
\* one more waypoint at x = 0 that differs in its auxiliary data only
ElevatedWaypoints == {[x |-> 0, y |-> 0, ele |-> 100]}
FarWaypoints == {[x |-> HalfTurn, y |-> 0, ele |-> 0]}
Waypoint == GridWaypoints \cup ElevatedWaypoints \cup FarWaypoints

\* Option<T>: None is the empty sequence, Some(v) the one-element sequence
None == <<>>
Some(v) == <<v>>

\* Result<T>
Ok(v) == [ok |-> TRUE, val |-> v, err |-> <<>>]
Err(e) == [ok |-> FALSE, val |-> <<>>, err |-> e]

Abs(n) == IF n < 0 THEN 0 - n ELSE n

Last(s) == s[Len(s)]

RECURSIVE SeqsUpTo(_, _)
SeqsUpTo(S, n) ==
    IF n = 0 THEN {<<>>}
    ELSE LET shorter == SeqsUpTo(S, n - 1)
         IN shorter \cup {Append(s, e) : s \in {t \in shorter : Len(t) = n - 1}, e \in S}

\* --------------------------------------------------- distance (169..179)
\* location(): latitude is the point's y, longitude its x
location(waypoint) == [lat |-> waypoint.y, lon |-> waypoint.x]

\* geoutils Location::distance_to: Err where Vincenty does not converge
\* (nearly antipodal points), the geodesic length in meters otherwise
distance_to(a, b) ==
    IF a.lat = b.lat /\ Abs(a.lon - b.lon) >= HalfTurn - MaxLon
    THEN Err(<<"vincenty", "failed", "to", "converge">>)
    ELSE Ok(2000 * (Abs(a.lon - b.lon) + Abs(a.lat - b.lat)))

distance(a, b) == distance_to(location(a), location(b))

\* --------------------------------------------- LimitDistance (120..167)
\* variant: closes a subsequence as soon as the budget is reached
Exceeds_AtLeast(accumulated_meters, meters_per_file) ==
    accumulated_meters >= meters_per_file

\* variant: compares meters with the budget converted once more
Exceeds_Km(accumulated_meters, meters_per_file) ==
    accumulated_meters > meters_per_file * 1000

\* line 158: the test that closes a subsequence
Exceeds(accumulated_meters, meters_per_file) == accumulated_meters > meters_per_file

\* variant: the carried waypoint is measured but not put into the subsequence
StartChunk_NoDuplicate(prev_last, first) ==
    IF prev_last # None
    THEN LET d == distance(prev_last[1], first)
         IN IF d.ok THEN Ok([meters |-> d.val, waypoints |-> <<first>>])
            ELSE Err(d.err)
    ELSE Ok([meters |-> 0, waypoints |-> <<first>>])

\* lines 140..150: how a subsequence starts, given prev_last.take() and first
StartChunk(prev_last, first) ==
    IF prev_last # None
    THEN LET d == distance(prev_last[1], first)
         IN IF d.ok THEN Ok([meters |-> d.val, waypoints |-> <<prev_last[1], first>>])
            ELSE Err(d.err)
    ELSE Ok([meters |-> 0, waypoints |-> <<first>>])

\* variant: carries the first waypoint of the subsequence
CarryOver_First(accumulated_waypoints) == Some(Head(accumulated_waypoints))

\* line 163: the waypoint carried to the next call
CarryOver(accumulated_waypoints) == Some(Last(accumulated_waypoints))

\* variant: tests the budget before the step is added
RECURSIVE Accumulate_TestFirst(_, _, _, _)
Accumulate_TestFirst(rest, accumulated_meters, accumulated_waypoints, meters_per_file) ==
    IF rest = <<>>
    THEN [rest |-> rest, res |-> Ok([meters |-> accumulated_meters,
                                     waypoints |-> accumulated_waypoints])]
    ELSE LET waypoint == Head(rest)
             prev == Last(accumulated_waypoints)
             d == distance(prev, waypoint)
         IN IF ~d.ok
            THEN [rest |-> Tail(rest), res |-> Err(d.err)]
            ELSE LET meters == accumulated_meters + d.val
                     pushed == Append(accumulated_waypoints, waypoint)
                 IN IF Exceeds(accumulated_meters, meters_per_file)
                    THEN [rest |-> Tail(rest),
                          res |-> Ok([meters |-> meters, waypoints |-> pushed])]
                    ELSE Accumulate_TestFirst(Tail(rest), meters, pushed, meters_per_file)

\* lines 152..161: the while-let loop.  rest is what self.waypoints still
\* holds; the result says what it holds afterwards and what was accumulated.
RECURSIVE Accumulate(_, _, _, _)
Accumulate(rest, accumulated_meters, accumulated_waypoints, meters_per_file) ==
    IF rest = <<>>
    THEN [rest |-> rest, res |-> Ok([meters |-> accumulated_meters,
                                     waypoints |-> accumulated_waypoints])]
    ELSE LET waypoint == Head(rest)
             prev == Last(accumulated_waypoints)
             d == distance(prev, waypoint)
         IN IF ~d.ok
            THEN [rest |-> Tail(rest), res |-> Err(d.err)]
            ELSE LET meters == accumulated_meters + d.val
                     pushed == Append(accumulated_waypoints, waypoint)
                 IN IF Exceeds(meters, meters_per_file)
                    THEN [rest |-> Tail(rest),
                          res |-> Ok([meters |-> meters, waypoints |-> pushed])]
                    ELSE Accumulate(Tail(rest), meters, pushed, meters_per_file)

\* variant: a failed expression ends the sequence instead of yielding Err
ok_or_bail_EndsSequence(err) == None

\* lines 30..37, ok_or_bail!: what next returns when the expression is Err
ok_or_bail(err) == Some(Err(err))

\* variant: the budget is also tested after the step from the carried
\* waypoint, before the loop is entered
ProduceChunk_TestsBoundary(self) ==
    LET first == Head(self.waypoints)
        taken == [self EXCEPT !.waypoints = Tail(self.waypoints),
                              !.prev_last = None]
        start == StartChunk(self.prev_last, first)
    IN IF ~start.ok
       THEN [self |-> taken, item |-> ok_or_bail(start.err)]
       ELSE LET acc == IF Exceeds(start.val.meters, self.meters_per_file)
                       THEN [rest |-> taken.waypoints, res |-> Ok(start.val)]
                       ELSE Accumulate(taken.waypoints, start.val.meters,
                                       start.val.waypoints, self.meters_per_file)
            IN IF ~acc.res.ok
               THEN [self |-> [taken EXCEPT !.waypoints = acc.rest],
                     item |-> ok_or_bail(acc.res.err)]
               ELSE [self |-> [taken EXCEPT
                                 !.waypoints = acc.rest,
                                 !.prev_last = CarryOver(acc.res.val.waypoints)],
                     item |-> Some(Ok(acc.res.val.waypoints))]

\* variant: a call that fails puts the carried waypoint back
ProduceChunk_KeepsCarry(self) ==
    LET first == Head(self.waypoints)
        taken == [self EXCEPT !.waypoints = Tail(self.waypoints)]
        start == StartChunk(self.prev_last, first)
    IN IF ~start.ok
       THEN [self |-> taken, item |-> ok_or_bail(start.err)]
       ELSE LET acc == Accumulate(taken.waypoints, start.val.meters,
                                  start.val.waypoints, self.meters_per_file)
            IN IF ~acc.res.ok
               THEN [self |-> [taken EXCEPT !.waypoints = acc.rest],
                     item |-> ok_or_bail(acc.res.err)]
               ELSE [self |-> [taken EXCEPT
                                 !.waypoints = acc.rest,
                                 !.prev_last = CarryOver(acc.res.val.waypoints)],
                     item |-> Some(Ok(acc.res.val.waypoints))]

\* lines 133..165: next when self.waypoints still holds a waypoint.
\* item is Some(Err) or Some(Ok(chunk)).
ProduceChunk(self) ==
    LET first == Head(self.waypoints)
        taken == [self EXCEPT !.waypoints = Tail(self.waypoints),
                              !.prev_last = None]
        start == StartChunk(self.prev_last, first)
    IN IF ~start.ok
       THEN [self |-> taken, item |-> ok_or_bail(start.err)]
       ELSE LET acc == Accumulate(taken.waypoints, start.val.meters,
                                  start.val.waypoints, self.meters_per_file)
            IN IF ~acc.res.ok
               THEN [self |-> [taken EXCEPT !.waypoints = acc.rest],
                     item |-> ok_or_bail(acc.res.err)]
               ELSE [self |-> [taken EXCEPT
                                 !.waypoints = acc.rest,
                                 !.prev_last = CarryOver(acc.res.val.waypoints)],
                     item |-> Some(Ok(acc.res.val.waypoints))]

\* variant: the sequence also ends when only one waypoint is left
LimitDistanceNext_NeedsTwo(self) ==
    IF Len(self.waypoints) < 2
    THEN [self |-> [self EXCEPT !.waypoints = <<>>], item |-> None]
    ELSE ProduceChunk(self)

\* variant: with no waypoint left, an empty subsequence is yielded
LimitDistanceNext_EmptyChunk(self) ==
    IF self.waypoints = <<>>
    THEN [self |-> self, item |-> Some(Ok(<<>>))]
    ELSE ProduceChunk(self)

\* variant: with no waypoint left, a carried waypoint is yielded on its own
LimitDistanceNext_FlushesCarry(self) ==
    IF self.waypoints = <<>>
    THEN IF self.prev_last = None
         THEN [self |-> self, item |-> None]
         ELSE [self |-> [self EXCEPT !.prev_last = None],
               item |-> Some(Ok(<<self.prev_last[1]>>))]
    ELSE ProduceChunk(self)

\* lines 132..166: LimitDistance::next on the iterator state self.
\* Line 133 returns None, the end of the sequence, when no waypoint is left.
LimitDistanceNext(self) ==
    IF self.waypoints = <<>>
    THEN [self |-> self, item |-> None]
    ELSE ProduceChunk(self)

\* ------------------------------------------------------ route structure
\* gpx::Gpx as far as main uses it: tracks, each with a name and segments,
\* each segment with its points
ExtraSegment == [points |-> <<[x |-> 0, y |-> 0, ele |-> 0]>>]
ExtraTrack == [name |-> Some(<<"other">>), segments |-> <<ExtraSegment>>]
Extras(extra, e) == IF extra THEN <<e>> ELSE <<>>

Route(points, extra) ==
    [tracks |-> <<[name |-> Some(<<"tour">>),
                   segments |-> <<[points |-> points]>> \o Extras(extra, ExtraSegment)]>>
                \o Extras(extra, ExtraTrack)]

\* the routes gpx::read can return
Gpxs ==
    {[tracks |-> <<>>]}
    \cup {[tracks |-> <<[name |-> Some(<<"tour">>), segments |-> <<>>]>>
                      \o Extras(extra, ExtraTrack)] : extra \in BOOLEAN}
    \cup {Route(points, extra) : points \in SeqsUpTo(Waypoint, MaxLen), extra \in BOOLEAN}

\* lines 106..111
get_track(g) ==
    IF Len(g.tracks) > 0 THEN Ok(g.tracks[1])
    ELSE Err(<<"gpx", "file", "missing", "track", "0">>)

\* variant: a missing segment 0 is replaced by an empty one
get_segment_OrDefault(g) ==
    LET track == get_track(g)
    IN IF ~track.ok THEN Err(track.err)
       ELSE IF Len(track.val.segments) > 0 THEN Ok(track.val.segments[1])
       ELSE Ok([points |-> <<>>])

\* lines 113..118
get_segment(g) ==
    LET track == get_track(g)
    IN IF ~track.ok THEN Err(track.err)
       ELSE IF Len(track.val.segments) > 0 THEN Ok(track.val.segments[1])
       ELSE Err(<<"gpx", "track", "0", "missing", "segment", "0">>)

\* --------------------------------------------------------- file names
Digits == <<"0", "1", "2", "3", "4", "5", "6", "7", "8", "9">>

RECURSIVE Decimal(_)
Decimal(n) ==
    IF n < 10 THEN <<Digits[n + 1]>>
    ELSE Append(Decimal(n \div 10), Digits[(n % 10) + 1])

\* the {:02} of line 91: at least two digits, padded with zeros
Format02(n) == IF n < 10 THEN <<"0">> \o Decimal(n) ELSE Decimal(n)

\* variant: the file number is the index itself, counted from 0
OutputName_ZeroBased(basename, i) == basename \o <<"_">> \o Format02(i) \o <<".gpx">>

\* line 91: format!("{}_{:02}.gpx", basename, index + 1)
OutputName(basename, i) == basename \o <<"_">> \o Format02(i + 1) \o <<".gpx">>

\* lines 75..82: the input file's name without its extension
Basename(path) == path.stem

\* a file of the output directory: what it holds
OldFile == [state |-> "old", gpx |-> [tracks |-> <<>>]]
WrittenFile(g) == [state |-> "written", gpx |-> g]
PartialFile == [state |-> "partial", gpx |-> [tracks |-> <<>>]]

\* variant: File::create, which truncates a file that exists
create_new_Truncating(files, name) ==
    Ok([n \in DOMAIN files \cup {name} |->
          IF n = name THEN PartialFile ELSE files[n]])

\* lines 98..99: File::create_new fails when the file exists
create_new(files, name) ==
    IF name \in DOMAIN files
    THEN Err(<<"failed", "to", "create", "file">> \o name)
    ELSE Ok([n \in DOMAIN files \cup {name} |->
               IF n = name THEN PartialFile ELSE files[n]])

\* variant: the route is buffered and the created file is left as it is
write_Deferred(files, name, g) == files

\* line 100: gpx::write fills the created file
write(files, name, g) == [files EXCEPT ![name] = WrittenFile(g)]

\* variant: the points are put into every segment of track 0
set_points_EverySegment(g, points) ==
    [g EXCEPT !.tracks[1].segments = [s \in DOMAIN @ |-> [points |-> points]]]

\* line 96: get_segment(&mut gpx)?.points = ...
set_points(g, points) == [g EXCEPT !.tracks[1].segments[1].points = points]

\* ---------------------------------------------------------------- state
VARIABLES
    pc,            \* where main is: "start", "loaded", "loop", "body", "exit"
    arguments,     \* Arguments: gpx (the input path) and km_per_file
    disk,          \* the files of the output directory, by name
    gpx,           \* the route in memory (line 70)
    subsequences,  \* the LimitDistance iterator (lines 84..88)
    enumerate,     \* the counter of enumerate() (line 90)
    index,         \* index of the current loop iteration
    item,          \* what the last call of next returned
    result,        \* None while main runs, then Some(Ok) or Some(Err)
    input,         \* history: the waypoints taken at line 72
    chunks,        \* history: the subsequences yielded as Ok, in order
    pulls,         \* history: how often LimitDistance::next was called
    disk0,         \* history: the output directory before the run
    ends           \* history: how many waypoints had been taken from
                   \* self.waypoints when each chunk was yielded

vars == <<pc, arguments, disk, gpx, subsequences, enumerate, index, item, result,
          input, chunks, pulls, disk0, ends>>

InputPath == [stem |-> <<"tour">>, ext |-> <<"gpx">>]

\* at most one file with the name of an output file is there before the run
InitialDisks ==
    {<<>>} \cup {[n \in {OutputName(Basename(InputPath), k)} |-> OldFile] : k \in Preexisting}

Init ==
    /\ pc = "start"
    /\ arguments \in [gpx : {InputPath}, km_per_file : KmPerFile]
    /\ disk \in InitialDisks
    /\ gpx = [tracks |-> <<>>]
    /\ subsequences = [waypoints |-> <<>>, meters_per_file |-> 0, prev_last |-> None]
    /\ enumerate = 0
    /\ index = 0
    /\ item = None
    /\ result = None
    /\ input = <<>>
    /\ chunks = <<>>
    /\ pulls = 0
    /\ disk0 = disk
    /\ ends = <<>>

\* the errors of File::open / gpx::read (lines 68, 70) and gpx::write (line 100)
ReadError == <<"cannot", "read", "input">>
WriteError == <<"cannot", "write", "output">>

\* lines 68..70: open and parse the input, or fail
ReadGpx ==
    /\ pc = "start"
    /\ \/ /\ \E g \in Gpxs : gpx' = g
          /\ pc' = "loaded"
          /\ UNCHANGED result
       \/ /\ pc' = "exit"
          /\ result' = Some(Err(ReadError))
          /\ UNCHANGED gpx
    /\ UNCHANGED <<arguments, disk, subsequences, enumerate, index, item, input, chunks,
                   pulls, disk0, ends>>

\* lines 72..88: take the points of track 0 / segment 0, build the iterator
TakeWaypoints ==
    /\ pc = "loaded"
    /\ LET segment == get_segment(gpx)
       IN IF ~segment.ok
          THEN /\ pc' = "exit"
               /\ result' = Some(Err(segment.err))
               /\ UNCHANGED <<gpx, subsequences, input>>
          ELSE /\ gpx' = [gpx EXCEPT !.tracks[1].segments[1].points = <<>>]
               /\ subsequences' = [waypoints |-> segment.val.points,
                                   meters_per_file |-> arguments.km_per_file * 1000,
                                   prev_last |-> None]
               /\ input' = segment.val.points
               /\ pc' = "loop"
               /\ UNCHANGED result
    /\ UNCHANGED <<arguments, disk, enumerate, index, item, chunks, pulls, disk0, ends>>

\* line 90: the for loop asks enumerate(), which asks LimitDistance::next
ForNext ==
    /\ pc = "loop"
    /\ LET r == LimitDistanceNext(subsequences)
       IN /\ subsequences' = r.self
          /\ item' = r.item
          /\ IF r.item = None
             THEN /\ pc' = "exit"
                  /\ result' = Some(Ok(<<>>))
                  /\ UNCHANGED <<enumerate, index, chunks, ends>>
             ELSE /\ pc' = "body"
                  /\ index' = enumerate
                  /\ enumerate' = enumerate + 1
                  /\ chunks' = IF r.item[1].ok THEN Append(chunks, r.item[1].val)
                               ELSE chunks
                  /\ ends' = IF r.item[1].ok
                             THEN Append(ends, Len(input) - Len(r.self.waypoints))
                             ELSE ends
                  /\ UNCHANGED result
    /\ pulls' = pulls + 1
    /\ UNCHANGED <<arguments, disk, gpx, input, disk0>>

\* lines 91..100: the loop body.  Line 95 names the track; line 96 evaluates
\* subsequence? first (the assigned value), then the segment it is put into.
LoopBody ==
    /\ pc = "body"
    /\ LET name == OutputName(Basename(arguments.gpx), index)
           track == get_track(gpx)
           named == [gpx EXCEPT !.tracks[1].name = Some(name)]
           segment == get_segment(named)
           subsequence == item[1]
           filled == set_points(named, subsequence.val)
           file == create_new(disk, name)
       IN IF ~track.ok
          THEN /\ pc' = "exit" /\ result' = Some(Err(track.err))
               /\ UNCHANGED <<gpx, disk>>
          ELSE IF ~subsequence.ok
          THEN /\ pc' = "exit" /\ result' = Some(Err(subsequence.err))
               /\ gpx' = named /\ UNCHANGED disk
          ELSE IF ~segment.ok
          THEN /\ pc' = "exit" /\ result' = Some(Err(segment.err))
               /\ gpx' = named /\ UNCHANGED disk
          ELSE IF ~file.ok
          THEN /\ pc' = "exit" /\ result' = Some(Err(file.err))
               /\ gpx' = filled /\ UNCHANGED disk
          ELSE /\ gpx' = filled
               /\ \/ /\ disk' = write(file.val, name, filled)
                     /\ pc' = "loop"
                     /\ UNCHANGED result
                  \/ /\ disk' = file.val
                     /\ pc' = "exit"
                     /\ result' = Some(Err(WriteError))
    /\ UNCHANGED <<arguments, subsequences, enumerate, index, item, input, chunks,
                   pulls, disk0, ends>>

Next == ReadGpx \/ TakeWaypoints \/ ForNext \/ LoopBody

Spec == Init /\ [][Next]_vars

\* The loop of lines 90..101 on its own, for longer routes: the state main is
\* in after line 88, for a route of one track with one segment whose
\* waypoints were taken, and an empty output directory.
PartitionInit ==
    /\ pc = "loop"
    /\ arguments \in [gpx : {InputPath}, km_per_file : KmPerFile]
    /\ disk = <<>>
    /\ gpx = Route(<<>>, FALSE)
    /\ input \in SeqsUpTo(GridWaypoints \cup FarWaypoints, DeepLen)
    /\ subsequences = [waypoints |-> input,
                       meters_per_file |-> arguments.km_per_file * 1000,
                       prev_last |-> None]
    /\ enumerate = 0
    /\ index = 0
    /\ item = None
    /\ result = None
    /\ chunks = <<>>
    /\ pulls = 0
    /\ disk0 = disk
    /\ ends = <<>>

PartitionNext == ForNext \/ LoopBody

PartitionSpec == PartitionInit /\ [][PartitionNext]_vars

\* The same loop for a route long enough to give more than 99 chunks: the
\* waypoints alternate between two grid points, so that with a budget below
\* one grid step every chunk closes at the first waypoint the loop appends.
Alternating(n) == [i \in 1..n |-> [x |-> i % 2, y |-> 0, ele |-> 0]]

LongInit ==
    /\ pc = "loop"
    /\ arguments \in [gpx : {InputPath}, km_per_file : {k \in KmPerFile : k <= 1}]
    /\ disk = <<>>
    /\ gpx = Route(<<>>, FALSE)
    /\ input \in {Alternating(n) : n \in {0, 1, 2, 2 * LongChunks}}
    /\ subsequences = [waypoints |-> input,
                       meters_per_file |-> arguments.km_per_file * 1000,
                       prev_last |-> None]
    /\ enumerate = 0
    /\ index = 0
    /\ item = None
    /\ result = None
    /\ chunks = <<>>
    /\ pulls = 0
    /\ disk0 = disk
    /\ ends = <<>>

LongSpec == LongInit /\ [][PartitionNext]_vars

\* The iterator on its own, under a caller that keeps calling next whatever
\* the last call returned: after an error and after the end of the sequence.
IterInit ==
    /\ pc = "loop"
    /\ arguments \in [gpx : {InputPath}, km_per_file : KmPerFile]
    /\ disk = <<>>
    /\ gpx = Route(<<>>, FALSE)
    /\ input \in SeqsUpTo(GridWaypoints \cup FarWaypoints, MaxLen)
    /\ subsequences = [waypoints |-> input,
                       meters_per_file |-> arguments.km_per_file * 1000,
                       prev_last |-> None]
    /\ enumerate = 0
    /\ index = 0
    /\ item = None
    /\ result = None
    /\ chunks = <<>>
    /\ pulls = 0
    /\ disk0 = disk
    /\ ends = <<>>

\* lines 132..166: one call of next
CallNext ==
    /\ pulls < MaxPulls
    /\ LET r == LimitDistanceNext(subsequences)
       IN /\ subsequences' = r.self
          /\ item' = r.item
          /\ chunks' = IF r.item # None /\ r.item[1].ok
                       THEN Append(chunks, r.item[1].val) ELSE chunks
          /\ ends' = IF r.item # None /\ r.item[1].ok
                     THEN Append(ends, Len(input) - Len(r.self.waypoints)) ELSE ends
    /\ pulls' = pulls + 1
    /\ UNCHANGED <<pc, arguments, disk, gpx, enumerate, index, result, input, disk0>>

IterSpec == IterInit /\ [][CallNext]_vars

\* the caller does call next again
IterFairSpec == IterSpec /\ WF_vars(CallNext)

\* ------------------------------------------------------------ properties
\* the end of the sequence was signalled and main returned Ok(())
EndOfSequence == pc = "exit" /\ result = Some(Ok(<<>>))

Budget == subsequences.meters_per_file

\* every distance between consecutive waypoints of ws is defined
AllDistancesOk(ws) == \A i \in 1..(Len(ws) - 1) : distance(ws[i], ws[i + 1]).ok

\* the sum of the distances between the consecutive waypoints of ws
RECURSIVE PathMeters(_)
PathMeters(ws) ==
    IF Len(ws) < 2 THEN 0
    ELSE distance(ws[1], ws[2]).val + PathMeters(Tail(ws))

\* the chunks in order, the first waypoint of every chunk but the first dropped
RECURSIVE Tails(_)
Tails(cs) == IF cs = <<>> THEN <<>> ELSE Tail(cs[1]) \o Tails(Tail(cs))
Join(cs) == IF cs = <<>> THEN <<>> ELSE cs[1] \o Tails(Tail(cs))

\* chunk i is not the last one: a later chunk was yielded, or waypoints are left
NonFinal(i) == i < Len(chunks) \/ (i = Len(chunks) /\ subsequences.waypoints # <<>>)

\* C1: for a non-empty input and a positive budget, when the iterator has been
\* pulled to its end without a failed distance, the chunks joined in order,
\* the first waypoint of every chunk after the first dropped, are the input.
C1_JoinIsInput ==
    (EndOfSequence /\ input # <<>> /\ Budget > 0) => Join(chunks) = input

C1_Witness ==
    /\ EndOfSequence /\ Budget > 0
    /\ Len(input) = 6 /\ Len(chunks) = 3
    /\ Join(chunks) = input

\* C2: for every budget, every chunk that is not the last one has a path
\* length strictly greater than the budget; only the last one may stay at or
\* below it.
C2_NonFinalExceeds ==
    \A i \in 1..Len(chunks) : NonFinal(i) => PathMeters(chunks[i]) > Budget

C2_Witness ==
    /\ EndOfSequence /\ Budget = 0
    /\ Len(chunks) = 3
    /\ PathMeters(chunks[1]) > Budget
    /\ PathMeters(chunks[2]) > Budget
    /\ PathMeters(chunks[3]) <= Budget

\* C3: every chunk after the first begins with the last waypoint of the chunk
\* before it, the first chunk begins with the first input waypoint and is a
\* prefix of the input, and after a successful call of next prev_last is the
\* last waypoint of the chunk returned.
C3_BoundaryCarried ==
    /\ \A i \in 2..Len(chunks) : Head(chunks[i]) = Last(chunks[i - 1])
    /\ Len(chunks) > 0 => chunks[1] = SubSeq(input, 1, Len(chunks[1]))
    /\ (item # None /\ item[1].ok) =>
          /\ item[1].val = Last(chunks)
          /\ subsequences.prev_last = Some(Last(item[1].val))

C3_Witness ==
    /\ item # None /\ item[1].ok
    /\ Len(chunks) = 3
    /\ Head(chunks[2]) = Last(chunks[1])
    /\ Head(chunks[3]) = Last(chunks[2])
    /\ Head(chunks[3]) # Head(chunks[2])
    /\ subsequences.prev_last = Some(Last(chunks[3]))
    /\ Last(chunks[3]) # Head(chunks[3])

Started(i) == IF i = 1 THEN 1 ELSE 2

Name(i) == OutputName(Basename(arguments.gpx), i)

\* the files the run created
WrittenByRun == {n \in DOMAIN disk : n \notin DOMAIN disk0}

\* the file of the chunk with index i is complete and holds that chunk
FileHoldsChunk(i) ==
    /\ Name(i) \in WrittenByRun
    /\ disk[Name(i)].state = "written"
    /\ disk[Name(i)].gpx.tracks[1].name = Some(Name(i))
    /\ disk[Name(i)].gpx.tracks[1].segments[1].points = chunks[i + 1]

\* the last call of next yielded Some(Err)
PullFailed == item # None /\ ~item[1].ok

\* the waypoints the iterator has taken from self.waypoints so far
Consumed == SubSeq(input, 1, Len(input) - Len(subsequences.waypoints))

\* C5: a distance that fails during a call of next makes that call yield an
\* error and no chunk; the run stops there with that error, creates no file
\* for that chunk, and the files written are exactly those of the chunks
\* yielded before.
C5_FailedDistanceStopsRun ==
    /\ PullFailed <=> ~AllDistancesOk(Consumed)
    /\ \A i \in 1..Len(chunks) : AllDistancesOk(chunks[i])
    /\ PullFailed =>
          /\ Len(chunks) = index /\ pulls = index + 1
          /\ pc \in {"body", "exit"}
          /\ pc = "exit" => result = Some(Err(item[1].err))
          /\ WrittenByRun = {Name(i) : i \in 0..(index - 1)}
          /\ \A i \in 0..(index - 1) : FileHoldsChunk(i)

C5_Witness ==
    /\ PullFailed /\ pc = "exit"
    /\ result = Some(Err(<<"vincenty", "failed", "to", "converge">>))
    /\ index = 1 /\ Len(chunks) = 1
    /\ WrittenByRun = {Name(0)}
    /\ Name(1) \notin DOMAIN disk

\* the route was read (lines 68..70 succeeded)
RouteRead == pc # "start" /\ result # Some(Err(ReadError))

\* the words occur in the message, next to each other
Mentions(msg, words) ==
    \E i \in 1..(Len(msg) - Len(words) + 1) : SubSeq(msg, i, i + Len(words) - 1) = words

\* main has failed with a message that holds the words
FailedMentioning(words) ==
    /\ result # None /\ ~result[1].ok /\ Mentions(result[1].err, words)

\* next was never called and no file was created
NothingPartitioned ==
    /\ pulls = 0 /\ chunks = <<>> /\ item = None
    /\ disk = disk0
    /\ pc \in {"loaded", "exit"}

\* C6: a route without track 0, or whose track 0 has no segment 0, makes the
\* run fail with an error that mentions "track 0", respectively "segment 0",
\* before next is called, and no file is created.
C6_MissingStructureFails ==
    RouteRead =>
        /\ Len(gpx.tracks) = 0 =>
              /\ NothingPartitioned
              /\ pc = "exit" => FailedMentioning(<<"track", "0">>)
        /\ (Len(gpx.tracks) > 0 /\ Len(gpx.tracks[1].segments) = 0) =>
              /\ NothingPartitioned
              /\ pc = "exit" => FailedMentioning(<<"segment", "0">>)

C6_Witness ==
    /\ RouteRead /\ pc = "exit"
    /\ Len(gpx.tracks) = 2 /\ Len(gpx.tracks[1].segments) = 0
    /\ FailedMentioning(<<"segment", "0">>)
    /\ pulls = 0 /\ disk = disk0

\* C7: when the file of chunk k (index k - 1) is there before the run, the run
\* fails at that chunk with the error of File::create_new, the file stays as
\* it was, no file of that or a later chunk is written, and the files of the
\* chunks before it stay complete.
C7_ExistingFileStopsRun ==
    \A n \in DOMAIN disk0 :
        /\ n \in DOMAIN disk /\ disk[n] = disk0[n]
        /\ \A k \in 0..Len(input) :
              n = Name(k) =>
                  /\ index <= k /\ pulls <= k + 1
                  /\ WrittenByRun \subseteq {Name(j) : j \in 0..(k - 1)}
                  /\ (Len(chunks) = k + 1 /\ pc # "body") =>
                        /\ pc = "exit"
                        /\ result = Some(Err(<<"failed", "to", "create", "file">> \o n))
                        /\ WrittenByRun = {Name(j) : j \in 0..(k - 1)}
                        /\ \A j \in 0..(k - 1) : FileHoldsChunk(j)

C7_Witness ==
    /\ Name(1) \in DOMAIN disk0 /\ disk[Name(1)] = OldFile
    /\ pc = "exit" /\ Len(chunks) = 2
    /\ result = Some(Err(<<"failed", "to", "create", "file">> \o Name(1)))
    /\ WrittenByRun = {Name(0)}
    /\ FileHoldsChunk(0)

\* C8: an input of exactly one waypoint and a positive budget give exactly one
\* chunk, which holds just that waypoint, and the call of next after it
\* signals the end of the sequence.
C8_SingleWaypoint ==
    (Len(input) = 1 /\ Budget > 0) =>
        /\ pulls >= 1 => chunks = <<input>>
        /\ pulls <= 2
        /\ pulls = 2 => (item = None /\ EndOfSequence)

C8_Witness ==
    /\ Len(input) = 1 /\ Budget > 0
    /\ pulls = 2 /\ item = None /\ EndOfSequence
    /\ chunks = <<input>>

\* line 72 succeeded: the waypoints of track 0 / segment 0 were taken
WaypointsTaken == RouteRead /\ pc # "loaded" /\ get_segment(gpx).ok

\* C9: with an empty input the first call of next signals the end of the
\* sequence, whatever the budget: no chunk, no file, and main returns Ok.
C9_EmptyInput ==
    (WaypointsTaken /\ input = <<>>) =>
        /\ chunks = <<>> /\ disk = disk0
        /\ pulls <= 1
        /\ pc \in {"loop", "exit"}
        /\ pc = "exit" => (pulls = 1 /\ item = None /\ EndOfSequence)

C9_Witness ==
    /\ WaypointsTaken /\ input = <<>> /\ Budget < 0
    /\ pulls = 1 /\ EndOfSequence
    /\ chunks = <<>> /\ disk = disk0

\* four waypoints, the three distances between them defined and equal to d,
\* and a budget of 1.5 * d
FourEquidistant(d) ==
    /\ Len(input) = 4 /\ AllDistancesOk(input)
    /\ \A i \in 1..3 : distance(input[i], input[i + 1]).val = d
    /\ 2 * Budget = 3 * d

EquidistantCases == {d \in {2000 * n : n \in 0..MaxLon} : FourEquidistant(d)}

\* what C10 says of the chunks: [p0, p1, p2], then [p2, p3], then the end
TwoChunksOfFour ==
    /\ Len(chunks) <= 2
    /\ Len(chunks) >= 1 => chunks[1] = SubSeq(input, 1, 3)
    /\ Len(chunks) = 2 => chunks[2] = SubSeq(input, 3, 4)
    /\ EndOfSequence => Len(chunks) = 2

\* C10 as stated: for four waypoints with equal consecutive distances d and
\* a budget of 1.5 * d the chunks are [p0, p1, p2] and [p2, p3].
C10_EquidistantAnyD == (\E d \in EquidistantCases : TRUE) => TwoChunksOfFour

\* C10, amended: the same for d > 0.  (For d = 0 the budget is 0, no
\* accumulated distance exceeds it, and the four waypoints form one chunk.)
C10_EquidistantPositiveD == (\E d \in EquidistantCases : d > 0) => TwoChunksOfFour

C10_Witness ==
    /\ \E d \in EquidistantCases : d > 0
    /\ EndOfSequence
    /\ chunks = <<SubSeq(input, 1, 3), SubSeq(input, 3, 4)>>

\* the positions of the input that chunk i holds: the waypoints taken from
\* self.waypoints for it and, before them, the carried waypoint, which is
\* the last one taken for the chunk before
ChunkStart(i) == IF i = 1 THEN 1 ELSE ends[i - 1]
ChunkEnd(i) == ends[i]
Positions(i) == ChunkStart(i)..ChunkEnd(i)

\* the chunks that hold the waypoint at position p of the input
Holders(p) == {i \in 1..Len(chunks) : p \in Positions(i)}

\* the positions some chunk holds
Covered == 1..(IF chunks = <<>> THEN 0 ELSE ChunkEnd(Len(chunks)))

\* C11: an input waypoint is in exactly one chunk, except the last waypoint of
\* a chunk that has a successor, which is in exactly that chunk and the next
\* one, as its first waypoint.  Consecutive chunks share exactly one
\* waypoint, other chunks none, and no waypoint is in three chunks.
C11_SharedBoundaryOnly ==
    /\ Len(ends) = Len(chunks)
    /\ \A i \in 1..Len(chunks) : chunks[i] = SubSeq(input, ChunkStart(i), ChunkEnd(i))
    /\ \A p \in Covered :
          IF \E i \in 1..(Len(chunks) - 1) : p = ChunkEnd(i)
          THEN \E i \in 1..(Len(chunks) - 1) :
                  /\ Holders(p) = {i, i + 1}
                  /\ p = ChunkEnd(i) /\ p = ChunkStart(i + 1)
          ELSE Cardinality(Holders(p)) = 1
    /\ \A i, j \in 1..Len(chunks) :
          i < j => Positions(i) \cap Positions(j) =
                      (IF j = i + 1 THEN {ChunkEnd(i)} ELSE {})
    /\ (EndOfSequence /\ input # <<>>) => Covered = 1..Len(input)

C11_Witness ==
    /\ EndOfSequence /\ Len(chunks) = 3 /\ Len(input) = 6
    /\ Holders(1) = {1}
    /\ Holders(ChunkEnd(1)) = {1, 2}
    /\ Holders(ChunkEnd(2)) = {2, 3}
    /\ Holders(6) = {3}
    /\ Positions(1) \cap Positions(3) = {}

\* the number a file name carries between "_" and ".gpx", digit by digit
NumberField(name) == SubSeq(name, Len(Basename(arguments.gpx)) + 2, Len(name) - 1)

DigitValue(c) == CHOOSE v \in 0..9 : Digits[v + 1] = c

RECURSIVE DecimalValue(_)
DecimalValue(d) ==
    IF d = <<>> THEN 0
    ELSE 10 * DecimalValue(SubSeq(d, 1, Len(d) - 1)) + DigitValue(d[Len(d)])

\* name is <basename>_<digits>.gpx
WellFormedName(name) ==
    /\ Len(name) >= Len(Basename(arguments.gpx)) + 3
    /\ SubSeq(name, 1, Len(Basename(arguments.gpx))) = Basename(arguments.gpx)
    /\ name[Len(Basename(arguments.gpx)) + 1] = "_"
    /\ name[Len(name)] = ".gpx"
    /\ \A i \in 1..Len(NumberField(name)) : \E v \in 0..9 : Digits[v + 1] = NumberField(name)[i]

\* the number a file the run created carries
FileNumber(name) == DecimalValue(NumberField(name))

\* how many of the chunks yielded so far are certain to have their file:
\* all of them between two passes of the loop and at the end of the sequence,
\* all but the last one while the body runs or after it failed
FilesDue == IF pc = "loop" \/ EndOfSequence THEN Len(chunks) ELSE Len(chunks) - 1

\* the files the run created are one per chunk, numbered 1.. in the order the
\* chunks were yielded, and the one numbered k holds the k-th chunk
OnePerChunk(width(_)) ==
    /\ \A n \in WrittenByRun :
          /\ WellFormedName(n)
          /\ FileNumber(n) \in 1..Len(chunks)
          /\ width(n)
          /\ disk[n].state = "written" =>
                /\ disk[n].gpx.tracks[1].name = Some(n)
                /\ disk[n].gpx.tracks[1].segments[1].points = chunks[FileNumber(n)]
    /\ Cardinality({FileNumber(n) : n \in WrittenByRun}) = Cardinality(WrittenByRun)
    /\ 1..FilesDue \subseteq
          {FileNumber(n) : n \in {m \in WrittenByRun : disk[m].state = "written"}}
    /\ EndOfSequence => Cardinality(WrittenByRun) = Len(chunks)

\* the number field has exactly two digits
TwoDigits(name) == Len(NumberField(name)) = 2

\* the number field is the decimal number padded with zeros to two digits:
\* two digits up to 99, and no leading zero beyond that
AtLeastTwoDigits(name) ==
    /\ Len(NumberField(name)) >= 2
    /\ Len(NumberField(name)) > 2 => NumberField(name)[1] # "0"

\* C12 as stated: the k-th chunk is written to <basename>_<NN>.gpx, NN being
\* k as a two-digit zero-padded number, and a successful run writes exactly
\* the files numbered 1..n, one per chunk, in order, for every n.
C12_TwoDigitNames == OnePerChunk(TwoDigits)

\* C12, amended: the same with NN being k padded with zeros to at least two
\* digits; from the 100th chunk on the number has three digits.
C12_PaddedNames == OnePerChunk(AtLeastTwoDigits)

C12_Witness ==
    /\ EndOfSequence /\ Len(chunks) > 100
    /\ <<"tour", "_", "0", "1", ".gpx">> \in WrittenByRun
    /\ <<"tour", "_", "9", "9", ".gpx">> \in WrittenByRun
    /\ <<"tour", "_", "1", "0", "0", ".gpx">> \in WrittenByRun
    /\ disk[<<"tour", "_", "1", "0", "0", ".gpx">>].gpx.tracks[1].segments[1].points
          = chunks[100]

\* the chunks yielded so far whose file is not complete
Unwritten == {k \in 1..Len(chunks) : ~FileHoldsChunk(k - 1)}

\* a step that calls next
Pull == pulls' = pulls + 1

\* a step that completes the file of the current chunk
WriteChunk == pc = "body" /\ pc' = "loop"

\* C13: the chunks are pulled one at a time and each is written before the
\* next is pulled: a call of next happens only when every chunk yielded so far
\* has its complete file; when the file of chunk k is completed the iterator
\* has taken the input exactly up to the last waypoint of chunk k; and at no
\* time is more than one yielded chunk without its file.
C13_PullThenWrite ==
    /\ [][Pull => Unwritten = {}]_vars
    /\ [][WriteChunk =>
            /\ Len(Consumed) = ends[Len(chunks)]
            /\ Last(Consumed) = Last(chunks[Len(chunks)])
            /\ Unwritten' = {}
            /\ UNCHANGED subsequences]_vars
    /\ [](Unwritten \subseteq {Len(chunks)})

C13_Witness ==
    /\ pc = "body" /\ ~PullFailed
    /\ Len(chunks) = 2
    /\ Unwritten = {2}
    /\ Len(Consumed) = ends[2]
    /\ subsequences.waypoints # <<>>

\* the last call of next returned None, the end of the sequence
Ended == pulls > 0 /\ item = None

\* C14: calling next again and again reaches the end of the sequence; a call
\* returns None exactly when self.waypoints is empty when it starts; and once
\* None was returned every later call returns None too, yields no chunk and
\* leaves the iterator, the carried waypoint included, as it is.
C14_EndsAndStaysEnded ==
    /\ <>Ended
    /\ [][Pull => (item' = None <=> subsequences.waypoints = <<>>)]_vars
    /\ [][(Ended /\ Pull) =>
            /\ item' = None
            /\ chunks' = chunks
            /\ subsequences' = subsequences]_vars

C14_Witness ==
    /\ Ended
    /\ Len(chunks) = 2
    /\ pulls >= Len(chunks) + 3
    /\ subsequences.prev_last = Some(input[Len(input)])
    /\ Len(input) = MaxLen

\* the step from the carried waypoint to the first new waypoint of chunk i
\* (i > 1) is longer than the budget
BoundaryStepExceeds(i) ==
    /\ distance(chunks[i][1], chunks[i][2]).ok
    /\ distance(chunks[i][1], chunks[i][2]).val > Budget

\* that step is longer than the budget in every call made so far
BoundaryAlwaysExceeds == \A i \in 2..Len(chunks) : BoundaryStepExceeds(i)

\* chunk i (i > 1) starts with the carried waypoint and the next new one
StartsAtBoundary(i) ==
    /\ Len(chunks[i]) >= 2
    /\ chunks[i][1] = Last(chunks[i - 1])
    /\ chunks[i][1] = input[ends[i - 1]]
    /\ chunks[i][2] = input[ends[i - 1] + 1]

ClosedAtFirstAppended(i) == Len(chunks[i]) <= (IF i = 1 THEN 2 ELSE 3)

\* the waypoints of chunk i before its last one are all at the same place
ZeroUpToLast(i) == PathMeters(SubSeq(chunks[i], 1, Len(chunks[i]) - 1)) = 0

\* C16 as stated: with a budget of zero or below, every chunk closes at the
\* first waypoint the loop appends, so the first chunk has at most two
\* waypoints and every later one at most three, whatever the distances are.
C16_ZeroOrNegativeBudget ==
    Budget <= 0 => \A i \in 1..Len(chunks) : ClosedAtFirstAppended(i)

\* C16, amended: this holds for every input when the budget is negative.  With
\* a budget of zero a chunk closes only when its accumulated distance is above
\* zero: waypoints at distance zero are appended until one lies elsewhere or
\* the input ends, and a chunk that is not the last has a positive length.
C16_NegativeBudget ==
    /\ Budget < 0 => \A i \in 1..Len(chunks) : ClosedAtFirstAppended(i)
    /\ Budget = 0 =>
          \A i \in 1..Len(chunks) :
              /\ ClosedAtFirstAppended(i) \/ ZeroUpToLast(i)
              /\ NonFinal(i) => PathMeters(chunks[i]) > 0

C16_Witness ==
    /\ EndOfSequence /\ Budget < 0
    /\ Len(input) = 6 /\ PathMeters(input) = 0
    /\ Len(chunks) = 3
    /\ Len(chunks[1]) = 2 /\ Len(chunks[2]) = 3 /\ Len(chunks[3]) = 3

\* the route has tracks or segments besides track 0 / segment 0
HasExtras(g) ==
    /\ Len(g.tracks) >= 1 /\ Len(g.tracks[1].segments) >= 1
    /\ Len(g.tracks) > 1 \/ Len(g.tracks[1].segments) > 1

\* h differs from g at most in the name of track 0 and the points of its
\* segment 0
SameButNameAndPoints(g, h) ==
    /\ Len(h.tracks) = Len(g.tracks)
    /\ \A t \in 2..Len(g.tracks) : h.tracks[t] = g.tracks[t]
    /\ Len(g.tracks) >= 1 =>
          /\ Len(h.tracks[1].segments) = Len(g.tracks[1].segments)
          /\ \A sg \in 2..Len(g.tracks[1].segments) :
                h.tracks[1].segments[sg] = g.tracks[1].segments[sg]

\* C17: a route with tracks or segments besides track 0 / segment 0 does not
\* fail for a missing track or segment; what is partitioned is the points of
\* track 0 / segment 0; and every step after the route was read changes at
\* most the name of track 0 and the points of its segment 0, which for a
\* written chunk are the file name and the chunk.
C17_OnlyNameAndPoints ==
    /\ [](HasExtras(gpx) => ~FailedMentioning(<<"missing">>))
    /\ [][(pc = "loaded" /\ HasExtras(gpx)) =>
            /\ pc' = "loop"
            /\ input' = gpx.tracks[1].segments[1].points]_vars
    /\ [][pc # "start" => SameButNameAndPoints(gpx, gpx')]_vars
    /\ [][(WriteChunk /\ HasExtras(gpx)) =>
            /\ gpx'.tracks[1].name = Some(Name(index))
            /\ gpx'.tracks[1].segments[1].points = chunks[Len(chunks)]
            /\ disk'[Name(index)].gpx = gpx']_vars

C17_Witness ==
    /\ EndOfSequence /\ Len(chunks) = 2
    /\ Len(gpx.tracks) = 2 /\ gpx.tracks[2] = ExtraTrack
    /\ Len(gpx.tracks[1].segments) = 2 /\ gpx.tracks[1].segments[2] = ExtraSegment
    /\ gpx.tracks[1].name = Some(Name(1))
    /\ gpx.tracks[1].segments[1].points = chunks[2]
    /\ ExtraSegment.points[1] \notin {input[i] : i \in 1..Len(input)}

\* the input positions chunk i holds that no earlier chunk holds
NewPositions(i) == {p \in Positions(i) : \A j \in 1..(i - 1) : p \notin Positions(j)}

\* C18: every chunk holds a waypoint that the call yielding it took from the
\* input and that is in no earlier chunk; every chunk after the first has at
\* least two waypoints; a chunk of one waypoint is the first chunk of an input
\* of one waypoint; no chunk is the carried waypoint alone; and there are no
\* more chunks than input waypoints.
C18_EveryChunkTakesInput ==
    /\ \A i \in 1..Len(chunks) :
          /\ ChunkEnd(i) > (IF i = 1 THEN 0 ELSE ChunkEnd(i - 1))
          /\ ChunkEnd(i) \in NewPositions(i)
          /\ chunks[i] = SubSeq(input, ChunkStart(i), ChunkEnd(i))
          /\ i > 1 => Len(chunks[i]) >= 2
          /\ Len(chunks[i]) = 1 => (i = 1 /\ Len(input) = 1)
          /\ i > 1 => chunks[i] # <<Last(chunks[i - 1])>>
    /\ Len(chunks) <= Len(input)

C18_Witness ==
    /\ EndOfSequence /\ Budget < 0
    /\ Len(input) = 5 /\ Len(chunks) = 3
    /\ Len(chunks[3]) = 2
    /\ NewPositions(3) = {5}
    /\ NewPositions(2) = {3, 4}

\* the input positions of chunk i, counted back from where the call ended
Span(i) == (ends[i] - Len(chunks[i]) + 1)..ends[i]

\* the input positions taken so far that are in no chunk
Lost == {p \in 1..Len(Consumed) : \A i \in 1..Len(chunks) : p \notin Span(i)}

\* the input positions a step takes
TakenByStep == (Len(Consumed) + 1)..(Len(Consumed'))

\* a step that calls next and gets a chunk
PullChunk == Pull /\ item' # None /\ item'[1].ok

\* C19: a call of next that fails leaves prev_last empty and has taken the
\* waypoints it looked at, the one whose distance failed included; none of
\* them is in a chunk, then or later.  The call after a failed one that yields
\* a chunk yields waypoints taken by that call only, starting with the next
\* waypoint of the input, without the last waypoint of the chunk before.
C19_FailedPullLosesWaypoints ==
    /\ [](\A i \in 1..Len(chunks) : chunks[i] = SubSeq(input, ends[i] - Len(chunks[i]) + 1, ends[i]))
    /\ [][(Pull /\ PullFailed') =>
            /\ subsequences'.prev_last = None
            /\ TakenByStep # {}
            /\ Len(Consumed') >= 2
            /\ ~distance(input[Len(Consumed') - 1], input[Len(Consumed')]).ok
            /\ TakenByStep \subseteq Lost'
            /\ chunks' = chunks]_vars
    /\ [][(PullFailed /\ PullChunk) =>
            /\ chunks' = Append(chunks, SubSeq(input, Len(Consumed) + 1, Len(Consumed')))
            /\ Span(Len(chunks))' = TakenByStep
            /\ chunks # <<>> => ends[Len(chunks)] \notin Span(Len(chunks))']_vars
    /\ [][Lost \subseteq Lost']_vars

C19_Witness ==
    /\ pulls = 3 /\ Len(input) = 4
    /\ Len(chunks) = 2
    /\ ends = <<2, 4>>
    /\ chunks[2] = <<input[4]>>
    /\ Lost = {3}
    /\ ~distance(input[2], input[3]).ok

====
